---- MODULE Spec2Model ----
(***************************************************************************)
(* A model of the runnable examples of the base-python guide: the retry    *)
(* and memoize decorators, the two BankAccount classes, the three copies   *)
(* of is_prime, safe_operation, parallel_map, merge_dictionaries,          *)
(* calculate_average, factorial, the exported decorators debug, timer and  *)
(* deprecated, the shared counter of concurrency_examples, the state the   *)
(* demonstration functions create, and the top-level execution of the      *)
(* modules exception_handling.py and main.py.                              *)
(*                                                                         *)
(* The examples are independent programs.  The variable `program` names    *)
(* the one a behaviour runs; it is chosen by Init and never changes.  The  *)
(* state of every example is one record; the records of the examples that  *)
(* do not run keep their Off value.                                        *)
(***************************************************************************)
EXTENDS Integers, Sequences, FiniteSets, TLC

VARIABLES program, rt, bk, mz, pr, so, mo, pm, md, fa, dc, sc, dm

vars == <<program, rt, bk, mz, pr, so, mo, pm, md, fa, dc, sc, dm>>

Programs ==
    {"retry", "bank", "memoize", "is_prime", "safe_operation", "module",
     "parallel_map", "merge_dictionaries",
     "factorial",
     "decorators",
     "shared_counter",
     "demonstrations"}

\* Python's None, and the marker of a record whose example does not run.
None == "None"
Off == [pc |-> "off"]

(***************************************************************************)
(* retry(max_attempts, delay): exception_handling.py 302-330 and the copy  *)
(* nested in decorators_examples, decorators.py 377-402.                   *)
(*                                                                         *)
(* The decorated function is any function: each invocation either returns  *)
(* or raises, chosen freely.  The k-th invocation returns the value        *)
(* <<"value", k>> or raises the exception <<"exc", k>>, so that results    *)
(* and exceptions of different invocations are told apart.                 *)
(***************************************************************************)

\* Bounds of the inputs: max_attempts ranges over -NegAttempts..MaxAttempts.
MaxAttempts == 3
NegAttempts == 1
MaxArg == 1

RetryCopies == {"decorators", "exception_handling"}

RetryFrame == UNCHANGED <<program, bk, mz, pr, so, mo, pm, md, fa, dc, sc, dm>>

\* The wrapper's result and the bound exception before they are set.
NoResult == <<"unset", 0>>

\* `while attempts < max_attempts:`
retry_while(attempts, max_attempts) == attempts < max_attempts

\* `if attempts == max_attempts: raise e`; the faulty variant raises one
\* failure late.
retry_is_last_late(attempts, max_attempts) == attempts > max_attempts
retry_is_last(attempts, max_attempts) == attempts = max_attempts

\* `@retry(max_attempts=N, delay=d)` applied to a function, and one call
\* wrapper(*args): `attempts = 0`.
RetryInit ==
    \E c \in RetryCopies, n \in (0 - NegAttempts)..MaxAttempts, a \in 0..MaxArg :
        rt = [pc |-> "while", copy |-> c, max_attempts |-> n, args |-> a,
              attempts |-> 0, calls |-> <<>>, sleeps |-> 0, e |-> NoResult,
              result |-> NoResult]

\* The loop test; when it fails the statement after the loop runs:
\* `return None  # This line should never be reached`.
RetryWhile ==
    /\ RetryFrame
    /\ program = "retry" /\ rt.pc = "while"
    /\ IF retry_while(rt.attempts, rt.max_attempts)
       THEN rt' = [rt EXCEPT !.pc = "try"]
       ELSE rt' = [rt EXCEPT !.pc = "return_none", !.result = <<None, 0>>]

\* `return func(*args, **kwargs)` inside try: the invocation returns ...
RetryCallReturns ==
    /\ RetryFrame
    /\ program = "retry" /\ rt.pc = "try"
    /\ LET k == Len(rt.calls) + 1 IN
       rt' = [rt EXCEPT !.pc = "returned",
                        !.calls = Append(@, [args |-> rt.args, raised |-> FALSE]),
                        !.result = <<"value", k>>]

\* ... or raises, and `except Exception as e:` binds the exception.
RetryCallRaises ==
    /\ RetryFrame
    /\ program = "retry" /\ rt.pc = "try"
    /\ LET k == Len(rt.calls) + 1 IN
       rt' = [rt EXCEPT !.pc = "except",
                        !.calls = Append(@, [args |-> rt.args, raised |-> TRUE]),
                        !.e = <<"exc", k>>]

\* `attempts += 1; if attempts == max_attempts: raise e`
RetryExcept ==
    /\ RetryFrame
    /\ program = "retry" /\ rt.pc = "except"
    /\ LET n == rt.attempts + 1 IN
       IF retry_is_last(n, rt.max_attempts)
       THEN rt' = [rt EXCEPT !.attempts = n, !.pc = "raised", !.result = rt.e]
       ELSE rt' = [rt EXCEPT !.attempts = n, !.pc = "sleep"]

\* `print(...); time.sleep(delay)`, then back to the loop test.
RetrySleep ==
    /\ RetryFrame
    /\ program = "retry" /\ rt.pc = "sleep"
    /\ rt' = [rt EXCEPT !.sleeps = @ + 1, !.pc = "while"]

(***************************************************************************)
(* The two BankAccount classes: object_oriented.py 114-140 and             *)
(* exception_handling.py 117-147, with InsufficientFundsError (108-115)    *)
(* and the try statement of the account demonstration (153-161).           *)
(* Amounts and balances are whole numbers of euros.                        *)
(***************************************************************************)

MaxAmount == 3
NegAmount == 1
MaxBalance == 5

BankClasses == {"object_oriented", "exception_handling"}

BankFrame == UNCHANGED <<program, rt, mz, pr, so, mo, pm, md, fa, dc, sc, dm>>

\* The account's record of its last call, before any call.
NoCall == [op |-> None]

\* The base classes of the exception classes: the built-in hierarchy, and
\* `class InsufficientFundsError(Exception)`.
Bases(cls) ==
    CASE cls = "Exception" -> {"BaseException"}
      [] cls = "KeyboardInterrupt" -> {"BaseException"}
      [] cls = "ValueError" -> {"Exception"}
      [] cls = "ArithmeticError" -> {"Exception"}
      [] cls = "ZeroDivisionError" -> {"ArithmeticError"}
      [] cls = "InsufficientFundsError" -> {"Exception"}
      [] OTHER -> {}

\* isinstance(exception of class cls, handler): the class or one of its
\* ancestors (the hierarchy is at most four levels deep).
IsInstance(cls, handler) ==
    \/ cls = handler
    \/ handler \in Bases(cls)
    \/ \E b \in Bases(cls) : \/ handler \in Bases(b)
                             \/ \E c \in Bases(b) : handler \in Bases(c)

\* The except clauses of a try statement, in order: the first clause whose
\* class the exception is an instance of handles it; "uncaught" when none.
RECURSIVE ExceptClause(_, _)
ExceptClause(cls, handlers) ==
    IF handlers = <<>> THEN "uncaught"
    ELSE IF IsInstance(cls, Head(handlers)) THEN Head(handlers)
    ELSE ExceptClause(cls, Tail(handlers))

\* `except ValueError as e: ... except InsufficientFundsError as e: ...`
DemoHandlers == <<"ValueError", "InsufficientFundsError">>

\* The outcome of a method: the new balance, the exception raised (None when
\* the method returns) and the exception's deficit attribute.
Returns(balance) == [balance |-> balance, exc |-> None, deficit |-> None]
Raises(balance, exc, deficit) == [balance |-> balance, exc |-> exc, deficit |-> deficit]

\* InsufficientFundsError.__init__: `self.deficit = amount - balance`
InsufficientFundsError(balance, amount) ==
    Raises(balance, "InsufficientFundsError", amount - balance)

\* object_oriented.BankAccount.deposit
oo_deposit(balance, amount) ==
    IF amount <= 0 THEN Raises(balance, "ValueError", None)
    ELSE Returns(balance + amount)

\* object_oriented.BankAccount.withdraw
oo_withdraw(balance, amount) ==
    IF amount <= 0 THEN Raises(balance, "ValueError", None)
    ELSE IF amount > balance THEN Raises(balance, "ValueError", None)
    ELSE Returns(balance - amount)

\* exception_handling.BankAccount.deposit
eh_deposit(balance, amount) ==
    IF amount <= 0 THEN Raises(balance, "ValueError", None)
    ELSE Returns(balance + amount)

\* exception_handling.BankAccount.withdraw; the faulty variant lets the balance go
\* negative by one comparison.
eh_withdraw_no_check(balance, amount) ==
    IF amount < 0 THEN Raises(balance, "ValueError", None)
    ELSE IF amount > balance + 1 THEN InsufficientFundsError(balance, amount)
    ELSE Returns(balance - amount)
eh_withdraw(balance, amount) ==
    IF amount <= 0 THEN Raises(balance, "ValueError", None)
    ELSE IF amount > balance THEN InsufficientFundsError(balance, amount)
    ELSE Returns(balance - amount)

\* `account = BankAccount(owner, balance)`
BankInit ==
    \E c \in BankClasses, b \in (0 - NegAmount)..MaxAmount :
        bk = [pc |-> "ready", cls |-> c, balance |-> b, last |-> NoCall]

\* What the account remembers of a call: the method, its argument, the balance
\* before it, the outcome, and the except clause that handles the exception.
BankCall(op, amount, out) ==
    bk' = [bk EXCEPT !.balance = out.balance,
                     !.last = [op |-> op, amount |-> amount, before |-> bk.balance,
                               exc |-> out.exc, deficit |-> out.deficit,
                               handler |-> IF out.exc = None THEN None
                                           ELSE ExceptClause(out.exc, DemoHandlers)]]

\* account.deposit(amount)
BankDeposit ==
    /\ BankFrame
    /\ program = "bank" /\ bk.pc = "ready"
    /\ \E amount \in (0 - NegAmount)..MaxAmount :
        /\ bk.balance + amount <= MaxBalance
        /\ BankCall("deposit", amount,
                    IF bk.cls = "object_oriented" THEN oo_deposit(bk.balance, amount)
                    ELSE eh_deposit(bk.balance, amount))

\* account.withdraw(amount)
BankWithdraw ==
    /\ BankFrame
    /\ program = "bank" /\ bk.pc = "ready"
    /\ \E amount \in (0 - NegAmount)..(MaxAmount + 1) :
        BankCall("withdraw", amount,
                 IF bk.cls = "object_oriented" THEN oo_withdraw(bk.balance, amount)
                 ELSE eh_withdraw(bk.balance, amount))

(***************************************************************************)
(* memoize and the memoized fibonacci: decorators.py 228-261.              *)
(*                                                                         *)
(* The name fibonacci is bound to memoize's wrapper, so the recursive calls *)
(* of the body go through the wrapper too.  The interpreter's call stack is *)
(* mz.stack, its top the last element; mz.ret is the value a finished call  *)
(* hands to its caller.  mz.runs counts, per cache key, how often the       *)
(* wrapper invoked the function, and mz.body counts, per n, how often the   *)
(* body of fibonacci ran.                                                   *)
(***************************************************************************)

MaxFib == 10
NegFib == 1
MaxCalls == 2

\* `fibonacci(10)`, the argument of the two calls of the demonstration.
DemoFib == 10

MemoFrame == UNCHANGED <<program, rt, bk, pr, so, mo, pm, md, fa, dc, sc, dm>>

\* No value is being returned.
NoRet == <<"none", 0>>

\* str() of the elements of a tuple of ints, joined by ", ".
RECURSIVE str_join(_)
str_join(args) ==
    IF Len(args) = 1 THEN ToString(args[1])
    ELSE ToString(args[1]) \o ", " \o str_join(Tail(args))

\* str(args) of a tuple of ints: "()", "(10,)", "(10, 9)".
str_args(args) ==
    IF Len(args) = 0 THEN "()"
    ELSE IF Len(args) = 1 THEN "(" \o ToString(args[1]) \o ",)"
    ELSE "(" \o str_join(args) \o ")"

\* str(kwargs) of a dict of ints, a sequence of <<name, value>> in insertion
\* order: "{}", "{'n': 10}".
RECURSIVE str_items(_)
str_items(kwargs) ==
    LET item == "'" \o kwargs[1][1] \o "': " \o ToString(kwargs[1][2]) IN
    IF Len(kwargs) = 1 THEN item ELSE item \o ", " \o str_items(Tail(kwargs))

str_kwargs(kwargs) == IF Len(kwargs) = 0 THEN "{}" ELSE "{" \o str_items(kwargs) \o "}"

\* `key = str(args) + str(kwargs)`
memo_key(args, kwargs) == str_args(args) \o str_kwargs(kwargs)

\* `if key not in cache:`; the faulty variant never finds the key.
memo_miss_always(key, cache) == TRUE
memo_miss(key, cache) == key \notin DOMAIN cache

\* The parameter n of fibonacci as the call binds it, from the positional or
\* the keyword argument.
fib_param(args, kwargs) == IF Len(args) > 0 THEN args[1] ELSE kwargs[1][2]

\* `if n <= 1: return n`
fib_base(n) == n <= 1

\* A frame of the wrapper and a frame of the body of fibonacci.
WrapperFrame(args, kwargs) ==
    [fn |-> "wrapper", step |-> "lookup", args |-> args, kwargs |-> kwargs,
     key |-> memo_key(args, kwargs), n |-> 0, a |-> 0]
BodyFrame(n) ==
    [fn |-> "fibonacci", step |-> "start", args |-> <<>>, kwargs |-> <<>>,
     key |-> "", n |-> n, a |-> 0]

MemoTop == mz.stack[Len(mz.stack)]
MemoPop == SubSeq(mz.stack, 1, Len(mz.stack) - 1)
MemoSetTop(f) == [mz.stack EXCEPT ![Len(mz.stack)] = f]
Bump(counts, k) ==
    IF k \in DOMAIN counts THEN [counts EXCEPT ![k] = @ + 1] ELSE (k :> 1) @@ counts

\* `cache = {}` and the decoration of fibonacci; nothing is called yet.
MemoInit ==
    mz = [pc |-> "idle", cache |-> <<>>, stack |-> <<>>, ret |-> NoRet,
          runs |-> <<>>, body |-> <<>>, done |-> <<>>, cur |-> <<>>]

\* A call of fibonacci from the demonstration: fibonacci(n) or fibonacci(n=n).
MemoCall ==
    /\ MemoFrame
    /\ program = "memoize" /\ mz.pc = "idle" /\ Len(mz.done) < MaxCalls
    /\ \E n \in (0 - NegFib)..MaxFib, kw \in BOOLEAN :
        LET args == IF kw THEN <<>> ELSE <<n>>
            kwargs == IF kw THEN <<(<<"n", n>>)>> ELSE <<>> IN
        mz' = [mz EXCEPT !.pc = "running",
                         !.stack = <<WrapperFrame(args, kwargs)>>,
                         !.cur = <<n, kw>>]

\* wrapper: the key is in the cache, `return cache[key]`.
MemoHit ==
    /\ MemoFrame
    /\ program = "memoize" /\ mz.pc = "running" /\ mz.stack # <<>>
    /\ MemoTop.fn = "wrapper" /\ MemoTop.step = "lookup"
    /\ ~memo_miss(MemoTop.key, mz.cache)
    /\ mz' = [mz EXCEPT !.stack = MemoPop, !.ret = <<"value", mz.cache[MemoTop.key]>>]

\* wrapper: the key is not in the cache, `func(*args, **kwargs)` is invoked.
MemoMiss ==
    /\ MemoFrame
    /\ program = "memoize" /\ mz.pc = "running" /\ mz.stack # <<>>
    /\ MemoTop.fn = "wrapper" /\ MemoTop.step = "lookup"
    /\ memo_miss(MemoTop.key, mz.cache)
    /\ mz' = [mz EXCEPT
                !.stack = Append(MemoSetTop([MemoTop EXCEPT !.step = "invoked"]),
                                 BodyFrame(fib_param(MemoTop.args, MemoTop.kwargs))),
                !.runs = Bump(@, MemoTop.key)]

\* wrapper: the function returned, `cache[key] = ...; return cache[key]`.
MemoStore ==
    /\ MemoFrame
    /\ program = "memoize" /\ mz.pc = "running" /\ mz.stack # <<>>
    /\ MemoTop.fn = "wrapper" /\ MemoTop.step = "invoked" /\ mz.ret # NoRet
    /\ LET cache == (MemoTop.key :> mz.ret[2]) @@ mz.cache IN
       mz' = [mz EXCEPT !.cache = cache, !.stack = MemoPop,
                        !.ret = <<"value", cache[MemoTop.key]>>]

\* fibonacci: `if n <= 1: return n`, else the call fibonacci(n - 1).
FibStart ==
    /\ MemoFrame
    /\ program = "memoize" /\ mz.pc = "running" /\ mz.stack # <<>>
    /\ MemoTop.fn = "fibonacci" /\ MemoTop.step = "start"
    /\ IF fib_base(MemoTop.n)
       THEN mz' = [mz EXCEPT !.stack = MemoPop, !.ret = <<"value", MemoTop.n>>,
                             !.body = Bump(@, MemoTop.n)]
       ELSE mz' = [mz EXCEPT
                     !.stack = Append(MemoSetTop([MemoTop EXCEPT !.step = "first"]),
                                      WrapperFrame(<<MemoTop.n - 1>>, <<>>)),
                     !.body = Bump(@, MemoTop.n)]

\* fibonacci: fibonacci(n - 1) returned, the call fibonacci(n - 2).
FibSecond ==
    /\ MemoFrame
    /\ program = "memoize" /\ mz.pc = "running" /\ mz.stack # <<>>
    /\ MemoTop.fn = "fibonacci" /\ MemoTop.step = "first" /\ mz.ret # NoRet
    /\ mz' = [mz EXCEPT
                !.stack = Append(MemoSetTop([MemoTop EXCEPT !.step = "second",
                                                             !.a = mz.ret[2]]),
                                 WrapperFrame(<<MemoTop.n - 2>>, <<>>)),
                !.ret = NoRet]

\* fibonacci: `return fibonacci(n - 1) + fibonacci(n - 2)`.
FibReturn ==
    /\ MemoFrame
    /\ program = "memoize" /\ mz.pc = "running" /\ mz.stack # <<>>
    /\ MemoTop.fn = "fibonacci" /\ MemoTop.step = "second" /\ mz.ret # NoRet
    /\ mz' = [mz EXCEPT !.stack = MemoPop, !.ret = <<"value", MemoTop.a + mz.ret[2]>>]

\* The demonstration receives the value of its call.
MemoDone ==
    /\ MemoFrame
    /\ program = "memoize" /\ mz.pc = "running" /\ mz.stack = <<>> /\ mz.ret # NoRet
    /\ mz' = [mz EXCEPT !.pc = "idle", !.ret = NoRet, !.cur = <<>>,
                        !.done = Append(@, [n |-> mz.cur[1], kw |-> mz.cur[2],
                                            value |-> mz.ret[2],
                                            runs |-> mz.runs])]

(***************************************************************************)
(* is_prime: main.py 432-452, functions.py 153-173 and MathUtils.is_prime, *)
(* object_oriented.py 332-353.  Each copy is modelled as the step its code  *)
(* takes from a state [pc, i, result]: from "entry" through the three       *)
(* early returns to the loop, and one iteration of the loop from "while".   *)
(* The three copies run on the same n, each at its own pace.                *)
(***************************************************************************)

MaxPrime == 130
NegPrime == 2

PrimeFrame == UNCHANGED <<program, rt, bk, mz, so, mo, pm, md, fa, dc, sc, dm>>

PrimeEntry == [pc |-> "entry", i |-> 0, result |-> FALSE]
PrimeLoop(i) == [pc |-> "while", i |-> i, result |-> FALSE]
PrimeReturn(i, b) == [pc |-> "done", i |-> i, result |-> b]

\* main.py, is_prime nested in function_examples.
is_prime_main(n, st) ==
    IF st.pc = "entry" THEN
        IF n <= 1 THEN PrimeReturn(0, FALSE)
        ELSE IF n <= 3 THEN PrimeReturn(0, TRUE)
        ELSE IF n % 2 = 0 \/ n % 3 = 0 THEN PrimeReturn(0, FALSE)
        ELSE PrimeLoop(5)
    ELSE
        IF st.i * st.i <= n THEN
            IF n % st.i = 0 \/ n % (st.i + 2) = 0 THEN PrimeReturn(st.i, FALSE)
            ELSE PrimeLoop(st.i + 6)
        ELSE PrimeReturn(st.i, TRUE)

\* python_guide/functions.py, is_prime nested in function_examples; the
\* faulty variant stops the loop one candidate early.
is_prime_functions_strict(n, st) ==
    IF st.pc = "entry" THEN
        IF n <= 1 THEN PrimeReturn(0, FALSE)
        ELSE IF n <= 3 THEN PrimeReturn(0, TRUE)
        ELSE IF n % 2 = 0 \/ n % 3 = 0 THEN PrimeReturn(0, FALSE)
        ELSE PrimeLoop(5)
    ELSE
        IF st.i * st.i < n THEN
            IF n % st.i = 0 \/ n % (st.i + 2) = 0 THEN PrimeReturn(st.i, FALSE)
            ELSE PrimeLoop(st.i + 6)
        ELSE PrimeReturn(st.i, TRUE)
is_prime_functions(n, st) ==
    IF st.pc = "entry" THEN
        IF n <= 1 THEN PrimeReturn(0, FALSE)
        ELSE IF n <= 3 THEN PrimeReturn(0, TRUE)
        ELSE IF n % 2 = 0 \/ n % 3 = 0 THEN PrimeReturn(0, FALSE)
        ELSE PrimeLoop(5)
    ELSE
        IF st.i * st.i <= n THEN
            IF n % st.i = 0 \/ n % (st.i + 2) = 0 THEN PrimeReturn(st.i, FALSE)
            ELSE PrimeLoop(st.i + 6)
        ELSE PrimeReturn(st.i, TRUE)

\* python_guide/object_oriented.py, the static method MathUtils.is_prime.
MathUtils_is_prime(n, st) ==
    IF st.pc = "entry" THEN
        IF n <= 1 THEN PrimeReturn(0, FALSE)
        ELSE IF n <= 3 THEN PrimeReturn(0, TRUE)
        ELSE IF n % 2 = 0 \/ n % 3 = 0 THEN PrimeReturn(0, FALSE)
        ELSE PrimeLoop(5)
    ELSE
        IF st.i * st.i <= n THEN
            IF n % st.i = 0 \/ n % (st.i + 2) = 0 THEN PrimeReturn(st.i, FALSE)
            ELSE PrimeLoop(st.i + 6)
        ELSE PrimeReturn(st.i, TRUE)

\* The three copies are called with the same n.
PrimeInit ==
    \E n \in (0 - NegPrime)..MaxPrime :
        pr = [pc |-> "run", n |-> n, main |-> PrimeEntry, functions |-> PrimeEntry,
              MathUtils |-> PrimeEntry]

PrimeStepMain ==
    /\ PrimeFrame
    /\ program = "is_prime" /\ pr.main.pc # "done"
    /\ pr' = [pr EXCEPT !.main = is_prime_main(pr.n, @)]

PrimeStepFunctions ==
    /\ PrimeFrame
    /\ program = "is_prime" /\ pr.functions.pc # "done"
    /\ pr' = [pr EXCEPT !.functions = is_prime_functions(pr.n, @)]

PrimeStepMathUtils ==
    /\ PrimeFrame
    /\ program = "is_prime" /\ pr.MathUtils.pc # "done"
    /\ pr' = [pr EXCEPT !.MathUtils = MathUtils_is_prime(pr.n, @)]

(***************************************************************************)
(* safe_operation: exception_handling.py 284-299, and the operations its   *)
(* demonstration passes (340-345): int() of a string.  A string is a        *)
(* sequence of characters.                                                  *)
(***************************************************************************)

MaxStr == 3

SafeFrame == UNCHANGED <<program, rt, bk, mz, pr, mo, pm, md, fa, dc, sc, dm>>

Alphabet == {"1", "2", "3", "a", "b", "c", "-"}
Strings == UNION {[1..k -> Alphabet] : k \in 0..MaxStr}

Digit(c) == CASE c = "1" -> 1 [] c = "2" -> 2 [] c = "3" -> 3 [] OTHER -> -1

RECURSIVE Digits(_, _)
\* The value of a string of decimal digits after the digits read so far (acc),
\* -1 when a character is no digit.
Digits(str, acc) ==
    IF str = <<>> THEN acc
    ELSE IF Digit(Head(str)) < 0 THEN -1
    ELSE Digits(Tail(str), 10 * acc + Digit(Head(str)))

\* The built-in int(str): an optional sign and at least one digit, else
\* ValueError.
py_int(str) ==
    LET neg == str # <<>> /\ Head(str) = "-"
        body == IF neg THEN Tail(str) ELSE str
        v == IF body = <<>> THEN -1 ELSE Digits(body, 0) IN
    IF v < 0 THEN [raises |-> "ValueError", value |-> 0]
    ELSE [raises |-> None, value |-> IF neg THEN 0 - v ELSE v]

\* The operations passed to safe_operation: int, and operations that raise an
\* exception of a given class whatever their argument.
Raisers == {"ZeroDivisionError", "KeyboardInterrupt"}
SafeOperations == {"int"} \cup Raisers
operation(op, arg) ==
    IF op = "int" THEN py_int(arg) ELSE [raises |-> op, value |-> 0]

\* `except Exception as e:`; the faulty variant handles ValueError only.
safe_handlers_narrow == <<"ValueError">>
safe_handlers == <<"Exception">>

\* safe_operation(operation, arg, default=d)
SafeInit ==
    \E op \in SafeOperations, arg \in Strings, d \in {0, 123} :
        so = [pc |-> "try", op |-> op, arg |-> arg, default |-> d, calls |-> 0,
              exc |-> None, result |-> NoResult]

\* `return operation(*args, **kwargs)` inside try.
SafeTry ==
    /\ SafeFrame
    /\ program = "safe_operation" /\ so.pc = "try"
    /\ LET out == operation(so.op, so.arg) IN
       IF out.raises = None
       THEN so' = [so EXCEPT !.pc = "returned", !.calls = @ + 1,
                             !.result = <<"value", out.value>>]
       ELSE so' = [so EXCEPT !.pc = "raising", !.calls = @ + 1, !.exc = out.raises]

\* The except clause: `return default`, or the exception leaves the function.
SafeExcept ==
    /\ SafeFrame
    /\ program = "safe_operation" /\ so.pc = "raising"
    /\ IF ExceptClause(so.exc, safe_handlers) # "uncaught"
       THEN so' = [so EXCEPT !.pc = "returned", !.result = <<"value", so.default>>]
       ELSE so' = [so EXCEPT !.pc = "propagated", !.result = <<"exc", so.exc>>]

(***************************************************************************)
(* The execution of a module's top-level statements, as a script           *)
(* (`python module.py`, __name__ == "__main__") or by                       *)
(* `from module import name`: main.py, python_guide/functions.py and        *)
(* python_guide/exception_handling.py.                                      *)
(*                                                                         *)
(* A statement evaluates names and then binds names in the module's        *)
(* namespace.  A name that is neither bound in the namespace nor a built-in *)
(* raises NameError, which ends the execution of the module.  The           *)
(* annotations of a `def` are evaluated when the def statement executes     *)
(* (CPython up to 3.13, "eager"); from CPython 3.14 they are evaluated only *)
(* on demand ("deferred").                                                  *)
(***************************************************************************)

MaxNum == 2
MaxLen == 3

ModuleFrame == UNCHANGED <<program, rt, bk, mz, pr, so, pm, md, fa, dc, sc, dm>>

\* A statement: the names it evaluates, the names its annotations evaluate,
\* the names it binds.
Stmt(line, kind, uses, annotations, binds) ==
    [line |-> line, kind |-> kind, uses |-> uses, annotations |-> annotations,
     binds |-> binds, skip |-> 0]

\* `if __name__ == "__main__":` followed by a block of `skip` statements.
IfMain(line, skip) ==
    [line |-> line, kind |-> "if_main", uses |-> {"__name__"}, annotations |-> {},
     binds |-> {}, skip |-> skip]

\* The names every module finds without binding them.
Builtins == {"__name__", "int", "float", "str", "print", "Exception"}

\* python_guide/exception_handling.py
exception_handling_py ==
    << Stmt(8, "import", {}, {}, {"os"}),
       Stmt(9, "import", {}, {}, {"sys"}),
       Stmt(10, "import", {}, {},
            {"Any", "List", "Dict", "Optional", "Union", "TextIO"}),
       Stmt(13, "def", {}, {}, {"exception_handling"}),
       Stmt(284, "def", {}, {"Callable", "Any"}, {"safe_operation"}),
       Stmt(302, "def", {}, {"int", "float"}, {"retry"}),
       IfMain(333, 6),
       Stmt(335, "call", {"exception_handling"}, {}, {}),
       Stmt(338, "call", {"print"}, {}, {}),
       Stmt(341, "call", {"safe_operation", "int"}, {}, {"result"}),
       Stmt(344, "call", {"safe_operation", "int"}, {}, {"result"}),
       Stmt(348, "def", {"retry"}, {"int", "List", "str"}, {"unstable_function"}),
       Stmt(358, "call", {"unstable_function", "print", "Exception"}, {}, {"result"}) >>

\* main.py
main_py ==
    << Stmt(18, "import", {}, {}, {"math"}),
       Stmt(19, "import", {}, {}, {"random"}),
       Stmt(20, "import", {}, {}, {"sys"}),
       Stmt(21, "import", {}, {},
            {"Any", "Callable", "Dict", "List", "Optional", "Set", "Tuple", "Union"}),
       Stmt(22, "import", {}, {}, {"reduce"}),
       Stmt(23, "import", {}, {}, {"Counter", "defaultdict"}),
       Stmt(29, "def", {}, {}, {"python_introduction"}),
       Stmt(68, "def", {}, {}, {"basic_types"}),
       Stmt(184, "def", {}, {}, {"flow_control"}),
       Stmt(290, "def", {}, {}, {"function_examples"}),
       Stmt(462, "def", {}, {}, {"advanced_types"}),
       Stmt(719, "def", {}, {}, {"main"}),
       IfMain(740, 1),
       Stmt(745, "call", {"main"}, {}, {}) >>

\* python_guide/functions.py
functions_py ==
    << Stmt(8, "import", {}, {}, {"Any", "List", "Tuple"}),
       Stmt(11, "def", {}, {}, {"function_examples"}),
       Stmt(180, "def", {}, {"List", "float"}, {"calculate_average"}),
       Stmt(194, "def", {}, {"int"}, {"factorial"}),
       IfMain(213, 4),
       Stmt(215, "call", {"function_examples"}, {}, {}),
       Stmt(218, "call", {"print"}, {}, {}),
       Stmt(219, "call", {"print", "calculate_average"}, {}, {}),
       Stmt(220, "call", {"print", "factorial"}, {}, {}) >>

Modules == {"exception_handling", "main", "functions"}
ModuleBody(m) ==
    CASE m = "exception_handling" -> exception_handling_py
      [] m = "main" -> main_py
      [] m = "functions" -> functions_py

\* The names a statement evaluates when it executes.
Evaluated(stmt, annotations) ==
    stmt.uses \cup (IF annotations = "eager" THEN stmt.annotations ELSE {})

\* The names an import statement of the examples asks a module for.
Wanted == {"calculate_average", "safe_operation", "main"}

\* Python numbers: an int, and a float given as the exact fraction num/den in
\* lowest terms.
RECURSIVE Gcd(_, _)
Gcd(a, b) == IF b = 0 THEN a ELSE Gcd(b, a % b)
Abs(a) == IF a < 0 THEN 0 - a ELSE a
PyInt(n) == [type |-> "int", num |-> n, den |-> 1]
PyFloat(num, den) ==
    LET g == Gcd(Abs(num), den) IN
    [type |-> "float", num |-> IF g = 0 THEN 0 ELSE num \div g,
     den |-> IF g = 0 THEN 1 ELSE den \div g]

RECURSIVE Sum(_)
\* sum(numbers)
Sum(numbers) == IF numbers = <<>> THEN 0 ELSE Head(numbers) + Sum(Tail(numbers))

\* functions.py: calculate_average, `if not numbers: return 0`, else
\* `sum(numbers) / len(numbers)`.
calculate_average(numbers) ==
    IF numbers = <<>> THEN PyInt(0)
    ELSE PyFloat(Sum(numbers), Len(numbers))

\* `calculate_average([1, 2, 3, 4, 5])` of the docstrings, and the lists the
\* function is called with.
DocList == <<1, 2, 3, 4, 5>>
NumberLists == UNION {[1..k -> (0 - 1)..MaxNum] : k \in 0..MaxLen} \cup {DocList}

\* `python module.py` (want = None), or `from module import want`.
ModuleInit ==
    \E m \in Modules, a \in {"eager", "deferred"}, w \in Wanted \cup {None} :
        mo = [pc |-> "exec", module |-> m, annotations |-> a, want |-> w,
              name |-> IF w = None THEN "__main__" ELSE m,
              ip |-> 1, names |-> {}, ran |-> {}, exc |-> [type |-> None, line |-> 0],
              numbers |-> <<>>, result |-> PyInt(0)]

\* The next top-level statement of the module.
ModuleExec ==
    /\ ModuleFrame
    /\ program = "module" /\ mo.pc = "exec" /\ mo.ip <= Len(ModuleBody(mo.module))
    /\ LET stmt == ModuleBody(mo.module)[mo.ip]
           missing == Evaluated(stmt, mo.annotations) \ (mo.names \cup Builtins) IN
       IF missing # {}
       THEN mo' = [mo EXCEPT !.pc = "raised",
                             !.exc = [type |-> "NameError", line |-> stmt.line]]
       ELSE IF stmt.kind = "if_main"
       THEN mo' = [mo EXCEPT !.ip = IF mo.name = "__main__" THEN @ + 1
                                    ELSE @ + 1 + stmt.skip]
       ELSE mo' = [mo EXCEPT !.ip = @ + 1, !.names = @ \cup stmt.binds,
                             !.ran = @ \cup {stmt.line}]

\* The end of the module: the script is finished, or the import statement
\* looks the name up in the module and raises ImportError when it is not there.
ModuleEnd ==
    /\ ModuleFrame
    /\ program = "module" /\ mo.pc = "exec" /\ mo.ip > Len(ModuleBody(mo.module))
    /\ IF mo.want = None THEN mo' = [mo EXCEPT !.pc = "finished"]
       ELSE IF mo.want \in mo.names THEN mo' = [mo EXCEPT !.pc = "imported"]
       ELSE mo' = [mo EXCEPT !.pc = "raised",
                             !.exc = [type |-> "ImportError", line |-> 0]]

\* `calculate_average(numbers)` with the imported function.
ModuleCall ==
    /\ ModuleFrame
    /\ program = "module" /\ mo.pc = "imported" /\ mo.want = "calculate_average"
    /\ \E numbers \in NumberLists :
        mo' = [mo EXCEPT !.pc = "called", !.numbers = numbers,
                         !.result = calculate_average(numbers)]

(***************************************************************************)
(* parallel_map: concurrency.py 631-644, with the standard library's       *)
(* ProcessPoolExecutor.  executor.map submits one future per item, at once  *)
(* and in order; the pool's processes take the futures in submission order  *)
(* and finish them in any order; list() takes the results of the futures in *)
(* submission order, waiting for each; a result that is an exception is     *)
(* raised by list() and the futures not yet started are cancelled; leaving  *)
(* the with block shuts the pool down and waits for the running futures.    *)
(***************************************************************************)

MaxItems == 3
MaxItem == 2
MaxWorkers == 2

PmFrame == UNCHANGED <<program, rt, bk, mz, pr, so, mo, md, fa, dc, sc, dm>>

\* `numbers = [1, 2, 3, 4, 5]` of the demonstration.
DemoNumbers == <<1, 2, 3, 4, 5>>
ItemLists == UNION {[1..k -> 1..MaxItem] : k \in 0..MaxItems} \cup {DemoNumbers}

\* `def square(x): return x * x`
square(x) == x * x

\* The index of the future whose result list(executor.map(...)) takes next,
\* given the results taken so far and the order in which futures finished;
\* the faulty variant takes them as they complete.
map_next_as_completed(results, finished) ==
    IF Len(finished) > Len(results) THEN finished[Len(results) + 1]
    ELSE Len(results) + 1
map_next(results, finished) == Len(results) + 1

PmCount(state) == Cardinality({i \in DOMAIN pm.futures : pm.futures[i] = state})

\* parallel_map(func, items, max_workers): func is square, except that it
\* raises on the items in `bad`.
PmInit ==
    \E items \in ItemLists, w \in 0..MaxWorkers, bad \in SUBSET (1..MaxItem) :
        pm = [pc |-> "create", items |-> items, max_workers |-> w, bad |-> bad,
              futures |-> <<>>, values |-> <<>>, finished |-> <<>>,
              results |-> <<>>, pool |-> "none", exc |-> None]

\* `ProcessPoolExecutor(max_workers=max_workers)` raises ValueError for
\* max_workers <= 0; else `executor.map(func, items)` submits every item.
PmCreate ==
    /\ PmFrame
    /\ program = "parallel_map" /\ pm.pc = "create"
    /\ IF pm.max_workers <= 0
       THEN pm' = [pm EXCEPT !.pc = "raised", !.exc = "ValueError"]
       ELSE pm' = [pm EXCEPT !.pc = "list", !.pool = "open",
                             !.futures = [i \in 1..Len(pm.items) |-> "pending"],
                             !.values = [i \in 1..Len(pm.items) |-> 0]]

\* A free process takes the oldest pending future.
PmStart ==
    /\ PmFrame
    /\ program = "parallel_map" /\ pm.pool = "open"
    /\ PmCount("running") < pm.max_workers
    /\ \E i \in DOMAIN pm.futures :
        /\ pm.futures[i] = "pending"
        /\ \A j \in 1..(i - 1) : pm.futures[j] # "pending"
        /\ pm' = [pm EXCEPT !.futures[i] = "running"]

\* A process finishes its call func(items[i]): with a value or an exception.
PmFinish ==
    /\ PmFrame
    /\ program = "parallel_map"
    /\ \E i \in DOMAIN pm.futures :
        /\ pm.futures[i] = "running"
        /\ IF pm.items[i] \in pm.bad
           THEN pm' = [pm EXCEPT !.futures[i] = "failed",
                                 !.finished = Append(@, i)]
           ELSE pm' = [pm EXCEPT !.futures[i] = "done",
                                 !.values[i] = square(pm.items[i]),
                                 !.finished = Append(@, i)]

\* list(executor.map(...)) takes the next result; after the last one the with
\* block is left.
PmList ==
    /\ PmFrame
    /\ program = "parallel_map" /\ pm.pc = "list"
    /\ IF Len(pm.results) = Len(pm.items)
       THEN pm' = [pm EXCEPT !.pc = "exit"]
       ELSE LET i == map_next(pm.results, pm.finished) IN
            /\ pm.futures[i] \in {"done", "failed"}
            /\ IF pm.futures[i] = "done"
               THEN pm' = [pm EXCEPT !.results = Append(@, pm.values[i])]
               ELSE pm' = [pm EXCEPT
                             !.pc = "exit", !.exc = "Exception",
                             !.futures = [j \in DOMAIN @ |->
                                            IF @[j] = "pending" THEN "cancelled"
                                            ELSE @[j]]]

\* `with` exit: executor.shutdown(wait=True) returns once no future is
\* pending or running; then `return results`, or the exception goes on.
PmExit ==
    /\ PmFrame
    /\ program = "parallel_map" /\ pm.pc = "exit"
    /\ PmCount("running") = 0 /\ PmCount("pending") = 0
    /\ pm' = [pm EXCEPT !.pool = "shutdown",
                        !.pc = IF pm.exc = None THEN "returned" ELSE "raised"]

(***************************************************************************)
(* merge_dictionaries: advanced_types.py 270-280.  Dictionaries are        *)
(* objects on a heap, md.heap maps an object's identity to its contents, a  *)
(* function from keys to values; the two arguments may be the same object.  *)
(***************************************************************************)

MaxVal == 2

MdFrame == UNCHANGED <<program, rt, bk, mz, pr, so, mo, pm, fa, dc, sc, dm>>

Keys == {"a", "b"}
Dicts == UNION {[ks -> 1..MaxVal] : ks \in SUBSET Keys}

\* A dict display's `**other`: every item of other is set, in the dict being
\* built.
dict_update(d, other) ==
    [k \in DOMAIN d \cup DOMAIN other |-> IF k \in DOMAIN other THEN other[k] ELSE d[k]]

\* `return {**dict1, **dict2}`: a new dict, filled from dict1, then from dict2.
\* The outcome is the heap and the identity of the returned dict.  The faulty
\* variant updates dict1 in place and returns it.
merge_dictionaries_in_place(heap, dict1, dict2) ==
    [heap |-> [heap EXCEPT ![dict1] = dict_update(heap[dict1], heap[dict2])],
     result |-> dict1]
merge_dictionaries(heap, dict1, dict2) ==
    LET new == Len(heap) + 1
        combined == dict_update(dict_update(<<>>, heap[dict1]), heap[dict2]) IN
    [heap |-> Append(heap, combined), result |-> new]

\* Two dictionaries, or one passed twice.
MdInit ==
    \E d1 \in Dicts, d2 \in Dicts, same \in BOOLEAN :
        md = [pc |-> "call", heap |-> IF same THEN <<d1>> ELSE <<d1, d2>>,
              dict1 |-> 1, dict2 |-> IF same THEN 1 ELSE 2,
              before |-> IF same THEN <<d1>> ELSE <<d1, d2>>, result |-> 0]

\* merge_dictionaries(dict1, dict2)
MdCall ==
    /\ MdFrame
    /\ program = "merge_dictionaries" /\ md.pc = "call"
    /\ LET out == merge_dictionaries(md.heap, md.dict1, md.dict2) IN
       md' = [md EXCEPT !.pc = "returned", !.heap = out.heap, !.result = out.result]

(***************************************************************************)
(* factorial(n): functions.py 194-210.                                     *)
(*                                                                         *)
(* The call stack holds the argument of every frame of factorial that has  *)
(* been entered and has not returned, the innermost frame last.  calls     *)
(* counts the calls that factorial makes to itself.                        *)
(***************************************************************************)

\* Bounds of the input: n ranges over -NegFact..MaxFact.
MaxFact == 5
NegFact == 2

FactorialFrame == UNCHANGED <<program, rt, bk, mz, pr, so, mo, pm, md, dc, sc, dm>>

\* `if n < 0:`
factorial_negative(n) == n < 0

\* A faulty variant of the base case: only 0 ends the recursion.
factorial_base_zero_only(n) == n = 0

\* `if n == 0 or n == 1:`
factorial_base(n) == n = 0 \/ n = 1

FactorialTop == fa.stack[Len(fa.stack)]

FactorialInit ==
    \E n \in -NegFact..MaxFact :
        fa = [pc |-> "enter", n |-> n, stack |-> <<n>>, calls |-> 0,
              ret |-> 0, result |-> None, exc |-> None]

\* `raise ValueError(...)`: no frame of factorial handles it.
FactorialRaise ==
    /\ FactorialFrame
    /\ program = "factorial" /\ fa.pc = "enter"
    /\ factorial_negative(FactorialTop)
    /\ fa' = [fa EXCEPT !.pc = "raised", !.stack = <<>>,
                        !.exc = "ValueError"]

\* `return 1`
FactorialBase ==
    /\ FactorialFrame
    /\ program = "factorial" /\ fa.pc = "enter"
    /\ ~factorial_negative(FactorialTop)
    /\ factorial_base(FactorialTop)
    /\ fa' = [fa EXCEPT !.pc = "return", !.ret = 1]

\* The call `factorial(n - 1)` of `return n * factorial(n - 1)`.
FactorialRecurse ==
    /\ FactorialFrame
    /\ program = "factorial" /\ fa.pc = "enter"
    /\ ~factorial_negative(FactorialTop)
    /\ ~factorial_base(FactorialTop)
    /\ fa' = [fa EXCEPT !.stack = Append(@, FactorialTop - 1),
                        !.calls = @ + 1]

\* The innermost frame returns ret.  Its caller, if there is one, multiplies
\* it by its own n and returns the product in turn.
FactorialReturn ==
    /\ FactorialFrame
    /\ program = "factorial" /\ fa.pc = "return"
    /\ LET rest == SubSeq(fa.stack, 1, Len(fa.stack) - 1)
       IN  IF rest = <<>>
           THEN fa' = [fa EXCEPT !.pc = "returned", !.stack = rest,
                                 !.result = fa.ret]
           ELSE fa' = [fa EXCEPT !.stack = rest,
                                 !.ret = rest[Len(rest)] * fa.ret]

(***************************************************************************)
(* The exported decorators debug, timer and deprecated: decorators.py      *)
(* 439-502.                                                                *)
(*                                                                         *)
(* The decorated function is any function: each invocation either returns  *)
(* or raises, chosen freely.  The k-th invocation returns <<"value", k>>   *)
(* or raises <<"exc", k>>.  log is what an observer sees, in order: the    *)
(* lines printed and the invocations of the decorated function with the    *)
(* arguments it receives.  ins, fouts and outs are the arguments of the    *)
(* wrapper's calls, the outcomes of the function's invocations and the     *)
(* outcomes of the wrapper's calls.  The texts are written without their   *)
(* accents.  The clock readings of timer do not influence its control flow *)
(* and are left out of its printed line.                                   *)
(***************************************************************************)

\* Bound of the number of calls of one wrapper.
MaxWrapperCalls == 2

Decorators == {"debug", "timer", "deprecated"}

\* The messages given to deprecated, the names of the decorated functions,
\* and the arguments of the wrapper's calls (kwargs in insertion order).
Messages == {"", "Usa new_function"}
FuncNames == {"old_function", "f"}
WrapperArgs == {<<>>, <<1>>}
WrapperKwargs == {<<>>, <<<<"k", 2>>>>}

DecoFrame == UNCHANGED <<program, rt, bk, mz, pr, so, mo, pm, md, fa, sc, dm>>

\* `", ".join(...)` of a list of strings.
RECURSIVE str_join_strs(_)
str_join_strs(strs) ==
    IF Len(strs) = 0 THEN ""
    ELSE IF Len(strs) = 1 THEN strs[1]
    ELSE strs[1] \o ", " \o str_join_strs(Tail(strs))

\* `args_repr`, `kwargs_repr` and `signature` of debug's wrapper.
debug_signature(args, kwargs) ==
    LET args_repr == [i \in 1..Len(args) |-> ToString(args[i])]
        kwargs_repr == [i \in 1..Len(kwargs) |->
                           kwargs[i][1] \o "=" \o ToString(kwargs[i][2])]
    IN  str_join_strs(args_repr \o kwargs_repr)

\* The default text of deprecated.
deprecated_default(name) ==
    "La funcion " \o name
        \o " esta obsoleta y sera eliminada en futuras versiones."

\* A faulty variant: the given message is ignored.
deprecated_warning_default_only(message, name) == deprecated_default(name)

\* `warning = message or f"La función {func.__name__} ..."`
deprecated_warning(message, name) ==
    IF message # "" THEN message ELSE deprecated_default(name)

\* `func(*args, **kwargs)`: what the decorated function receives.
wrapper_passes(args, kwargs) == <<"func", args, kwargs>>

\* Applying the decorator: debug(func), timer(func), deprecated(message)(func).
DecoInit ==
    \E d \in Decorators, name \in FuncNames, message \in Messages :
        /\ d # "deprecated" => message = ""
        /\ dc = [pc |-> "idle", decorator |-> d, name |-> name,
                 message |-> message,
                 warning |-> IF d = "deprecated"
                             THEN deprecated_warning(message, name)
                             ELSE None,
                 args |-> <<>>, kwargs |-> <<>>, result |-> <<None, 0>>,
                 log |-> <<>>, ins |-> <<>>, fouts |-> <<>>, outs |-> <<>>]

\* A call of the wrapper.
DecoCall ==
    /\ DecoFrame
    /\ program = "decorators" /\ dc.pc = "idle"
    /\ Len(dc.ins) < MaxWrapperCalls
    /\ \E args \in WrapperArgs, kwargs \in WrapperKwargs :
           dc' = [dc EXCEPT !.pc = "before", !.args = args,
                            !.kwargs = kwargs,
                            !.ins = Append(@, <<args, kwargs>>)]

\* debug: `print(f"DEBUG: Llamando a {func.__name__}({signature})")`
DebugBefore ==
    /\ DecoFrame
    /\ program = "decorators" /\ dc.pc = "before"
    /\ dc.decorator = "debug"
    /\ dc' = [dc EXCEPT
                 !.pc = "func",
                 !.log = Append(@, <<"print",
                             "DEBUG: Llamando a " \o dc.name \o "("
                                 \o debug_signature(dc.args, dc.kwargs)
                                 \o ")">>)]

\* timer: `start_time = time.time()`
TimerBefore ==
    /\ DecoFrame
    /\ program = "decorators" /\ dc.pc = "before"
    /\ dc.decorator = "timer"
    /\ dc' = [dc EXCEPT !.pc = "func"]

\* deprecated: `print(f"ADVERTENCIA: {warning}")`
DeprecatedBefore ==
    /\ DecoFrame
    /\ program = "decorators" /\ dc.pc = "before"
    /\ dc.decorator = "deprecated"
    /\ dc' = [dc EXCEPT
                 !.pc = "func",
                 !.log = Append(@, <<"print",
                                     "ADVERTENCIA: " \o dc.warning>>)]

\* `func(*args, **kwargs)` returns.
DecoFuncReturns ==
    /\ DecoFrame
    /\ program = "decorators" /\ dc.pc = "func"
    /\ LET value == <<"value", Len(dc.fouts) + 1>>
       IN  dc' = [dc EXCEPT
                     !.pc = "after",
                     !.log = Append(@, wrapper_passes(dc.args, dc.kwargs)),
                     !.fouts = Append(@, <<"return", value>>),
                     !.result = value]

\* `func(*args, **kwargs)` raises: no wrapper has a handler, the exception
\* leaves the wrapper.
DecoFuncRaises ==
    /\ DecoFrame
    /\ program = "decorators" /\ dc.pc = "func"
    /\ LET exc == <<"exc", Len(dc.fouts) + 1>>
       IN  dc' = [dc EXCEPT
                     !.pc = "idle",
                     !.log = Append(@, wrapper_passes(dc.args, dc.kwargs)),
                     !.fouts = Append(@, <<"raise", exc>>),
                     !.outs = Append(@, <<"raise", exc>>)]

\* debug: `print(f"DEBUG: {func.__name__} retornó {result!r}")`,
\* `return result`
DebugAfter ==
    /\ DecoFrame
    /\ program = "decorators" /\ dc.pc = "after"
    /\ dc.decorator = "debug"
    /\ dc' = [dc EXCEPT
                 !.pc = "idle",
                 !.log = Append(@, <<"print",
                             "DEBUG: " \o dc.name \o " retorno "
                                 \o ToString(dc.result)>>),
                 !.outs = Append(@, <<"return", dc.result>>)]

\* timer: `end_time = time.time()`, `print(f"Tiempo de ejecución de ...")`,
\* `return result`
TimerAfter ==
    /\ DecoFrame
    /\ program = "decorators" /\ dc.pc = "after"
    /\ dc.decorator = "timer"
    /\ dc' = [dc EXCEPT
                 !.pc = "idle",
                 !.log = Append(@, <<"print",
                             "Tiempo de ejecucion de " \o dc.name>>),
                 !.outs = Append(@, <<"return", dc.result>>)]

\* deprecated: `return func(*args, **kwargs)`
DeprecatedAfter ==
    /\ DecoFrame
    /\ program = "decorators" /\ dc.pc = "after"
    /\ dc.decorator = "deprecated"
    /\ dc' = [dc EXCEPT !.pc = "idle",
                        !.outs = Append(@, <<"return", dc.result>>)]

(***************************************************************************)
(* The shared counter of concurrency_examples: concurrency.py 118-146.     *)
(*                                                                         *)
(* counter and counter_lock are locals of concurrency_examples.  The       *)
(* nested function increment_counter declares `global counter`, so its     *)
(* `counter += amount` loads and stores the name counter of the module's   *)
(* namespace, globals, and not the local of concurrency_examples.  The     *)
(* module never binds counter at its top level.  Loading a name that is    *)
(* not bound raises NameError; the `with` statement releases the lock on   *)
(* the way out, and the exception ends the thread.                         *)
(*                                                                         *)
(* concurrency_examples may be run again after it has printed: its locals  *)
(* are new at every run, globals is the module's.                          *)
(***************************************************************************)

\* `for i in range(5):`
NumThreads == 5

\* Bounds: the repetitions of every thread (100000 in the source), and the
\* number of runs of concurrency_examples.
Repetitions == 2
MaxRuns == 2

CounterFrame == UNCHANGED <<program, rt, bk, mz, pr, so, mo, pm, md, fa, dc, dm>>

\* The module's namespace as far as increment_counter touches it: no name
\* counter is bound at the top level of concurrency.py.
concurrency_globals == <<>>

\* `args=(i+1, 100000)` of the thread started at step i of the loop.
thread_amount(i) == i + 1

\* LOAD_GLOBAL: the value bound to name, or NameError.
load_global(globals, name) ==
    IF name \in DOMAIN globals THEN <<"value", globals[name]>>
    ELSE <<"NameError", name>>

\* STORE_GLOBAL
store_global(globals, name, value) ==
    [n \in DOMAIN globals \cup {name} |->
        IF n = name THEN value ELSE globals[n]]

NewThread == [pc |-> "new", done |-> 0, exc |-> None]

\* The locals of concurrency_examples at `counter = 0`,
\* `counter_lock = threading.Lock()`, `threads = []`.
CounterLocals(run, globals) ==
    [pc |-> "start", run |-> run, counter |-> 0, counter_lock |-> 0,
     threads |-> [t \in 1..NumThreads |-> NewThread],
     started |-> 0, joined |-> 0, printed |-> None, globals |-> globals]

CounterInit == sc = CounterLocals(1, concurrency_globals)

\* `thread = threading.Thread(...)`, `threads.append(thread)`,
\* `thread.start()`
CounterStart ==
    /\ CounterFrame
    /\ program = "shared_counter" /\ sc.pc = "start"
    /\ LET t == sc.started + 1
       IN  sc' = [sc EXCEPT !.threads[t].pc = "loop",
                            !.started = t,
                            !.pc = IF t = NumThreads THEN "join" ELSE "start"]

\* increment_counter: `for _ in range(repetitions):` and, in the loop,
\* `with counter_lock:`, which waits until the lock is free.
CounterLoop ==
    /\ CounterFrame
    /\ program = "shared_counter"
    /\ \E t \in 1..NumThreads :
           /\ sc.threads[t].pc = "loop"
           /\ IF sc.threads[t].done = Repetitions
              THEN sc' = [sc EXCEPT !.threads[t].pc = "finished"]
              ELSE /\ sc.counter_lock = 0
                   /\ sc' = [sc EXCEPT !.threads[t].pc = "locked",
                                       !.counter_lock = t]

\* increment_counter: `counter += amount` on the global counter, and the
\* end of the `with` block, which releases the lock.
CounterIncrement ==
    /\ CounterFrame
    /\ program = "shared_counter"
    /\ \E t \in 1..NumThreads :
           /\ sc.threads[t].pc = "locked"
           /\ LET loaded == load_global(sc.globals, "counter")
              IN  IF loaded[1] = "value"
                  THEN sc' = [sc EXCEPT
                                 !.globals =
                                     store_global(@, "counter",
                                         loaded[2] + thread_amount(t - 1)),
                                 !.threads[t].done = @ + 1,
                                 !.threads[t].pc = "loop",
                                 !.counter_lock = 0]
                  ELSE sc' = [sc EXCEPT
                                 !.threads[t].pc = "error",
                                 !.threads[t].exc = loaded[1],
                                 !.counter_lock = 0]

\* `thread.join()`: returns once the thread has ended, however it ended.
CounterJoin ==
    /\ CounterFrame
    /\ program = "shared_counter" /\ sc.pc = "join"
    /\ LET t == sc.joined + 1
       IN  /\ sc.threads[t].pc \in {"finished", "error"}
           /\ sc' = [sc EXCEPT !.joined = t,
                               !.pc = IF t = NumThreads THEN "print"
                                      ELSE "join"]

\* `print(f"Valor final del contador: {counter}")`: the local counter.
CounterPrint ==
    /\ CounterFrame
    /\ program = "shared_counter" /\ sc.pc = "print"
    /\ sc' = [sc EXCEPT !.printed = sc.counter, !.pc = "done"]

\* concurrency_examples is run again.
CounterAgain ==
    /\ CounterFrame
    /\ program = "shared_counter" /\ sc.pc = "done"
    /\ sc.run < MaxRuns
    /\ sc' = CounterLocals(sc.run + 1, sc.globals)

(***************************************************************************)
(* The state the demonstration functions create: the cache of memoize      *)
(* (decorators.py 237, built when `@memoize` at 252 runs), the class       *)
(* variable MathUtils.PI (object_oriented.py 322-326, changed by update_pi *)
(* at 385), and the accounts (object_oriented.py 155-159,                  *)
(* exception_handling.py 149-155).  The counter of concurrency_examples    *)
(* is the example above.                                                   *)
(*                                                                         *)
(* An object lives in the namespace in which the statement that creates it *)
(* runs: the locals of the demonstration function, new at every call and   *)
(* dropped at its return, or the module's namespace, created once at       *)
(* import.  A run of a demonstration function executes its creating        *)
(* statements, reads the objects, changes them and returns; it may then    *)
(* be run again.                                                           *)
(***************************************************************************)

DemoFrame ==
    UNCHANGED <<program, rt, bk, mz, pr, so, mo, pm, md, fa, dc, sc>>

\* The keys the two calls fibonacci(10) leave in memoize's cache.
fibonacci_keys == {memo_key(<<n>>, <<>>) : n \in 0..DemoFib}

\* The objects: the function whose body creates them, their value when
\* created and their value after the function's statements have used them.
DemoObjects ==
    [cache |->
         [demo |-> "decorators_examples", created |-> {},
          used |-> fibonacci_keys],
     MathUtils_PI |->
         [demo |-> "object_oriented", created |-> "3.14159",
          used |-> "3.14159265359"],
     oo_account |->
         [demo |-> "object_oriented", created |-> 1000,
          used |-> oo_withdraw(oo_deposit(1000, 500).balance, 200).balance],
     eh_account |->
         [demo |-> "exception_handling", created |-> 100,
          used |-> eh_withdraw(
                       eh_withdraw(eh_deposit(100, 50).balance, 30).balance,
                       200).balance]]

DemoFunctions == {DemoObjects[o].demo : o \in DOMAIN DemoObjects}

ObjectsOf(demo) == {o \in DOMAIN DemoObjects : DemoObjects[o].demo = demo}

\* A faulty variant: the objects are created at the module's top level.
creation_scope_module(o) == "module"

\* Every creating statement is in the body of its demonstration function.
creation_scope(o) == "function"

\* The objects of demo created in the namespace scope, as created.
Created(demo, scope) ==
    [o \in {x \in ObjectsOf(demo) : creation_scope(x) = scope} |->
        DemoObjects[o].created]

\* Name lookup: the locals first, then the module's namespace.
DemoLookup(o) == IF o \in DOMAIN dm.locals THEN dm.locals[o] ELSE dm.module[o]

\* The import of the module and the first call of the function.
DemoInit ==
    \E demo \in DemoFunctions :
        dm = [pc |-> "enter", demo |-> demo, run |-> 1,
              module |-> Created(demo, "module"), locals |-> <<>>,
              observed |-> <<>>]

\* The creating statements of the function's body, and the first read of
\* every object.
DemoDefine ==
    /\ DemoFrame
    /\ program = "demonstrations" /\ dm.pc = "enter"
    /\ LET locals == Created(dm.demo, "function")
           seen == [o \in ObjectsOf(dm.demo) |->
                       IF o \in DOMAIN locals THEN locals[o]
                       ELSE dm.module[o]]
       IN  dm' = [dm EXCEPT !.pc = "defined", !.locals = locals,
                            !.observed = Append(@, seen)]

\* The statements that use the objects: the calls of fibonacci, update_pi,
\* deposit and withdraw.
DemoUse ==
    /\ DemoFrame
    /\ program = "demonstrations" /\ dm.pc = "defined"
    /\ dm' = [dm EXCEPT
                 !.pc = "used",
                 !.locals = [o \in DOMAIN @ |-> DemoObjects[o].used],
                 !.module = [o \in DOMAIN @ |->
                                IF o \in DOMAIN dm.locals THEN @[o]
                                ELSE DemoObjects[o].used]]

\* The function returns None: its locals are dropped.
DemoReturn ==
    /\ DemoFrame
    /\ program = "demonstrations" /\ dm.pc = "used"
    /\ dm' = [dm EXCEPT !.pc = "returned", !.locals = <<>>]

\* The function is called again.
DemoAgain ==
    /\ DemoFrame
    /\ program = "demonstrations" /\ dm.pc = "returned"
    /\ dm.run < MaxRuns
    /\ dm' = [dm EXCEPT !.pc = "enter", !.run = @ + 1]

(***************************************************************************)
(* Properties of retry.                                                    *)
(***************************************************************************)

RetryDone == rt.pc \in {"returned", "raised", "return_none"}

\* The failed invocations among the first n.
RetryFailures(n) == Cardinality({i \in 1..n : rt.calls[i].raised})

\* C1: with max_attempts = N >= 1 one wrapper call invokes the function at
\* most N times, always with the wrapper's arguments; it returns the result of
\* the first invocation that does not raise and invokes nothing after it; when
\* all N invocations raise it raises the exception of the N-th; and it sleeps
\* once after each failure but the N-th.
C1_RetryContract ==
    (program = "retry" /\ rt.max_attempts >= 1) =>
        LET n == Len(rt.calls) IN
        /\ n <= rt.max_attempts
        /\ \A i \in 1..n : rt.calls[i].args = rt.args
        /\ \A i \in 1..(n - 1) : rt.calls[i].raised
        /\ rt.sleeps < rt.max_attempts
        /\ rt.sleeps <= RetryFailures(n)
        /\ rt.pc # "return_none"
        /\ rt.pc = "returned" =>
              /\ n >= 1 /\ ~rt.calls[n].raised
              /\ rt.result = <<"value", n>>
              /\ rt.sleeps = n - 1
        /\ rt.pc = "raised" =>
              /\ n = rt.max_attempts /\ RetryFailures(n) = n
              /\ rt.result = <<"exc", n>>
              /\ rt.sleeps = n - 1

\* A wrapper call that failed max_attempts >= 2 times and raised.
C1_Witness ==
    /\ program = "retry" /\ rt.pc = "raised"
    /\ rt.max_attempts >= 2 /\ Len(rt.calls) = rt.max_attempts
    /\ rt.sleeps = rt.max_attempts - 1

\* C2: the statement after the loop, `return None`, is never executed, for
\* every value of max_attempts: a wrapper call ends by returning a result of
\* the function or raising an exception of the function.
C2_ReturnNoneUnreachable ==
    program = "retry" =>
        /\ rt.pc # "return_none"
        /\ RetryDone => /\ Len(rt.calls) >= 1
                        /\ rt.result \in {<<"value", Len(rt.calls)>>, <<"exc", Len(rt.calls)>>}

(***************************************************************************)
(* Properties of the BankAccount classes.                                  *)
(***************************************************************************)

\* C3: in both classes deposit and withdraw of an amount <= 0 raise
\* ValueError, withdraw of more than the balance raises the insufficient-funds
\* error (ValueError in object_oriented; InsufficientFundsError with
\* deficit = amount - balance > 0 in exception_handling, which the clause
\* `except ValueError` does not handle); a failing call leaves the balance
\* unchanged and a successful one changes it by exactly the amount.
C3_BankAccount ==
    (program = "bank" /\ bk.last # NoCall) =>
        LET l == bk.last IN
        IF l.amount <= 0 THEN
            /\ l.exc = "ValueError" /\ bk.balance = l.before
        ELSE IF l.op = "withdraw" /\ l.amount > l.before THEN
            /\ bk.balance = l.before
            /\ IF bk.cls = "object_oriented" THEN l.exc = "ValueError"
               ELSE /\ l.exc = "InsufficientFundsError"
                    /\ l.deficit = l.amount - l.before /\ l.deficit > 0
                    /\ l.handler = "InsufficientFundsError"
                    /\ ~IsInstance(l.exc, "ValueError")
        ELSE
            /\ l.exc = None
            /\ bk.balance = IF l.op = "deposit" THEN l.before + l.amount
                            ELSE l.before - l.amount

\* A withdrawal of more than the balance from the exception_handling account,
\* handled by the second except clause.
C3_Witness ==
    /\ program = "bank" /\ bk.cls = "exception_handling" /\ bk.last # NoCall
    /\ bk.last.op = "withdraw" /\ bk.last.amount > bk.last.before
    /\ bk.last.before > 0
    /\ bk.last.exc = "InsufficientFundsError"
    /\ bk.last.handler = "InsufficientFundsError"

(***************************************************************************)
(* Properties of memoize.                                                  *)
(***************************************************************************)

\* The two calls fibonacci(10) of the demonstration have returned and nothing
\* else has been called.
MemoDemoDone ==
    /\ program = "memoize" /\ Len(mz.done) = 2 /\ mz.pc = "idle"
    /\ \A j \in 1..2 : mz.done[j].n = DemoFib /\ ~mz.done[j].kw

\* C4: the wrapper invokes the function at most once per cache key
\* str(args) + str(kwargs); a call that repeats the arguments of an earlier
\* call returns the same value and invokes nothing; and after fibonacci(10)
\* has been evaluated twice the body has run exactly once for each n in 0..10,
\* 11 times in total.
C4_Memoize ==
    program = "memoize" =>
        /\ \A k \in DOMAIN mz.runs : mz.runs[k] <= 1
        /\ \A i, j \in 1..Len(mz.done) :
              (i < j /\ mz.done[i].n = mz.done[j].n /\ mz.done[i].kw = mz.done[j].kw) =>
                  /\ mz.done[j].value = mz.done[i].value
                  /\ mz.done[j].runs = mz.done[j - 1].runs
        /\ MemoDemoDone =>
              /\ DOMAIN mz.body = 0..DemoFib
              /\ \A n \in 0..DemoFib : mz.body[n] = 1
              /\ Cardinality(DOMAIN mz.runs) = DemoFib + 1
              /\ mz.done[1].value = 55

\* fibonacci(10) evaluated twice, the second time from the cache.
C4_Witness ==
    /\ MemoDemoDone
    /\ mz.done[2].runs = mz.done[1].runs
    /\ mz.body[DemoFib] = 1 /\ mz.done[2].value = 55

(***************************************************************************)
(* Properties of is_prime.                                                 *)
(***************************************************************************)

\* n is a prime number.
IsPrime(n) == n > 1 /\ \A d \in 2..(n - 1) : n % d # 0

PrimeCopies == <<pr.main, pr.functions, pr.MathUtils>>
PrimeAllDone == program = "is_prime" /\ \A c \in 1..3 : PrimeCopies[c].pc = "done"

\* Every copy that has returned has returned whether n is prime, so the copies
\* agree; in the loop i is one of 5, 11, 17, ... and the loop was entered only
\* while i * i <= n.
PrimeCorrect ==
    program = "is_prime" =>
        \A c \in 1..3 :
            LET st == PrimeCopies[c] IN
            /\ st.pc = "done" => st.result = IsPrime(pr.n)
            /\ st.pc = "while" =>
                  /\ st.i >= 5 /\ st.i % 6 = 5
                  /\ st.i > 5 => (st.i - 6) * (st.i - 6) <= pr.n

\* C5: for every integer n, negative numbers, 0 and 1 included, each of the
\* three copies of is_prime returns True exactly when n is prime, so the three
\* return the same result, and the trial-division loop of each terminates.
C5_IsPrime == []PrimeCorrect /\ ((program = "is_prime") ~> PrimeAllDone)

\* The three copies have returned False for 121 = 11 * 11, found by the second
\* iteration of the loop.
C5_Witness ==
    /\ program = "is_prime" /\ pr.n = 121 /\ PrimeAllDone
    /\ \A c \in 1..3 : PrimeCopies[c].i = 11 /\ ~PrimeCopies[c].result

(***************************************************************************)
(* Properties of safe_operation.                                           *)
(***************************************************************************)

\* C6: safe_operation returns the operation's result when the operation
\* returns and the default when it raises an Exception; it invokes the
\* operation exactly once and lets no Exception out; with int,
\* safe_operation(int, "123", default=0) = 123 and
\* safe_operation(int, "abc", default=0) = 0.
C6_SafeOperation ==
    program = "safe_operation" =>
        LET out == operation(so.op, so.arg) IN
        /\ so.calls <= 1
        /\ so.pc \in {"returned", "propagated"} =>
              /\ so.calls = 1
              /\ out.raises = None => so.pc = "returned" /\ so.result = <<"value", out.value>>
              /\ (out.raises # None /\ IsInstance(out.raises, "Exception")) =>
                    so.pc = "returned" /\ so.result = <<"value", so.default>>
              /\ so.pc = "propagated" => ~IsInstance(so.result[2], "Exception")
              /\ (so.op = "int" /\ so.arg = <<"1", "2", "3">> /\ so.default = 0) =>
                    so.result = <<"value", 123>>
              /\ (so.op = "int" /\ so.arg = <<"a", "b", "c">> /\ so.default = 0) =>
                    so.result = <<"value", 0>>

\* safe_operation(int, "abc", default=0) has returned the default.
C6_Witness ==
    /\ program = "safe_operation" /\ so.pc = "returned" /\ so.calls = 1
    /\ so.op = "int" /\ so.arg = <<"a", "b", "c">> /\ so.default = 0
    /\ so.exc = "ValueError" /\ so.result = <<"value", 0>>

(***************************************************************************)
(* Properties of the modules' execution.                                   *)
(***************************************************************************)

\* exception_handling.py is executed as a script.
EhScript == program = "module" /\ mo.module = "exception_handling" /\ mo.want = None

\* C7: executing exception_handling.py on its own creates its module-level
\* definitions exception_handling, safe_operation and retry without raising,
\* so that the __main__ block is reached and exception_handling(), the
\* safe_operation demonstration and the retry demonstration run.
C7_ModuleRunsStandalone ==
    EhScript =>
        /\ mo.pc # "raised"
        /\ mo.pc = "finished" =>
              /\ {"exception_handling", "safe_operation", "retry"} \subseteq mo.names
              /\ {335, 341, 344, 348, 358} \subseteq mo.ran

\* `from main import calculate_average` is executed.
FromMain == program = "module" /\ mo.module = "main" /\ mo.want = "calculate_average"

\* C10: calculate_average can be imported from the module main, and
\* calculate_average([1, 2, 3, 4, 5]) then returns 3.0; it returns sum/len of
\* a non-empty list and 0 for the empty list.
C10_ImportFromMain ==
    FromMain =>
        /\ mo.pc # "raised"
        /\ mo.pc = "called" =>
              /\ mo.numbers = DocList => mo.result = PyFloat(3, 1)
              /\ mo.numbers = <<>> => mo.result = PyInt(0)
              /\ mo.numbers # <<>> =>
                    /\ mo.result.type = "float"
                    /\ mo.result.num * Len(mo.numbers) = Sum(mo.numbers) * mo.result.den

(***************************************************************************)
(* Properties of parallel_map.                                             *)
(***************************************************************************)

\* C8: parallel_map returns a list as long as items whose i-th element is
\* func(items[i]), in the order of the items whatever the order in which the
\* processes finish, and it returns only after every item has been processed
\* and the pool has shut down; parallel_map(square, [1, 2, 3, 4, 5]) is
\* [1, 4, 9, 16, 25].
C8_ParallelMap ==
    (program = "parallel_map" /\ pm.pc = "returned") =>
        /\ Len(pm.results) = Len(pm.items)
        /\ \A i \in 1..Len(pm.items) : pm.results[i] = square(pm.items[i])
        /\ \A i \in DOMAIN pm.futures : pm.futures[i] = "done"
        /\ Len(pm.finished) = Len(pm.items)
        /\ pm.pool = "shutdown"
        /\ pm.items = DemoNumbers => pm.results = <<1, 4, 9, 16, 25>>

\* parallel_map(square, [1, 2, 3, 4, 5]) has returned although the second
\* item was finished before the first.
C8_Witness ==
    /\ program = "parallel_map" /\ pm.pc = "returned"
    /\ pm.items = DemoNumbers /\ pm.finished[1] = 2 /\ pm.finished[2] = 1
    /\ pm.results = <<1, 4, 9, 16, 25>>

(***************************************************************************)
(* Properties of merge_dictionaries.                                       *)
(***************************************************************************)

MdReturned == program = "merge_dictionaries" /\ md.pc = "returned"
MdResult == md.heap[md.result]
MdDict1 == md.before[md.dict1]
MdDict2 == md.before[md.dict2]

\* The result is a new dictionary, its keys are the keys of the inputs, and
\* the inputs are as they were.
MdNewAndPure ==
    /\ md.result \notin {md.dict1, md.dict2}
    /\ DOMAIN MdResult = DOMAIN MdDict1 \cup DOMAIN MdDict2
    /\ md.heap[md.dict1] = MdDict1 /\ md.heap[md.dict2] = MdDict2

RECURSIVE ProductFrom(_, _)
ProductFrom(k, n) == IF k > n THEN 1 ELSE k * ProductFrom(k + 1, n)

\* The number of calls factorial(n) makes to itself according to the claim.
FactorialCalls(n) == IF n >= 2 THEN n - 1 ELSE 0

\* C11: factorial(n) raises ValueError for every n < 0 without calling
\* itself; it returns 1 for n = 0 and n = 1; for n >= 2 it returns the
\* product 1 * 2 * ... * n after exactly n - 1 calls to itself.  It
\* terminates: it never makes more than that number of calls, its stack never
\* grows beyond n frames, and it always has a next step until it has returned
\* or raised.
C11_Factorial ==
    program = "factorial" =>
        /\ fa.calls <= FactorialCalls(fa.n)
        /\ Len(fa.stack) <= FactorialCalls(fa.n) + 1
        /\ fa.pc \in {"enter", "return"} =>
               ENABLED (FactorialRaise \/ FactorialBase \/ FactorialRecurse
                            \/ FactorialReturn)
        /\ fa.n < 0 => fa.pc \in {"enter", "raised"}
        /\ fa.pc = "raised" =>
               fa.n < 0 /\ fa.exc = "ValueError" /\ fa.calls = 0
        /\ fa.pc = "returned" =>
               /\ fa.n >= 0
               /\ fa.result = ProductFrom(1, fa.n)
               /\ fa.n \in {0, 1} => fa.result = 1
               /\ fa.calls = FactorialCalls(fa.n)

\* factorial(n) has returned for an n that needs at least two calls to itself.
C11_Witness ==
    /\ program = "factorial"
    /\ fa.pc = "returned" /\ fa.n >= 3 /\ fa.calls = fa.n - 1

(***************************************************************************)
(* Properties of debug, timer and deprecated.                              *)
(***************************************************************************)

\* The positions of the log at which the decorated function is invoked.
DecoInvocations == {i \in 1..Len(dc.log) : dc.log[i][1] = "func"}

\* The invocations of the decorated function, in order.
DecoInvoked == SelectSeq(dc.log, LAMBDA ev : ev[1] = "func")

\* The warning the claim expects of deprecated.
DecoExpectedWarning ==
    IF dc.message = ""
    THEN "La funcion " \o dc.name
             \o " esta obsoleta y sera eliminada en futuras versiones."
    ELSE dc.message

\* C12: debug, timer and deprecated are transparent.  Each call of the
\* wrapper invokes the decorated function exactly once, with the positional
\* and keyword arguments of the call; the call returns the function's result
\* unchanged, or ends with the function's exception.  deprecated prints its
\* warning before every invocation of the function, on every call: the
\* given message when it is not empty, the default text naming the function
\* otherwise.
C12_Transparent ==
    program = "decorators" =>
        \* one invocation per call, none before its call, none repeated
        /\ Len(DecoInvoked) =
               Len(dc.ins) - (IF dc.pc \in {"before", "func"} THEN 1 ELSE 0)
        /\ \A k \in 1..Len(DecoInvoked) :
               DecoInvoked[k] = <<"func", dc.ins[k][1], dc.ins[k][2]>>
        \* the outcome of the k-th call is the outcome of the k-th invocation
        /\ Len(dc.outs) = Len(dc.ins) - (IF dc.pc = "idle" THEN 0 ELSE 1)
        /\ \A k \in 1..Len(dc.outs) : dc.outs[k] = dc.fouts[k]
        \* deprecated's warning comes right before every invocation
        /\ dc.decorator = "deprecated" =>
               \A i \in DecoInvocations :
                   /\ i > 1
                   /\ dc.log[i - 1] =
                          <<"print", "ADVERTENCIA: " \o DecoExpectedWarning>>

\* The wrapper of deprecated, given a message, has been called twice: the
\* first call ended with the function's exception, the second, with a
\* positional and a keyword argument, returned the function's result.
C12_Witness ==
    /\ program = "decorators"
    /\ dc.pc = "idle" /\ Len(dc.outs) = 2
    /\ dc.decorator = "deprecated" /\ dc.message # ""
    /\ dc.outs[1][1] = "raise" /\ dc.outs[2][1] = "return"
    /\ dc.ins[2] = <<(<<1>>), (<<(<<"k", 2>>)>>)>>

(***************************************************************************)
(* Properties of the state across calls.                                   *)
(***************************************************************************)

RECURSIVE SumOfAmounts(_)
SumOfAmounts(t) ==
    IF t = 0 THEN 0 ELSE thread_amount(t - 1) * Repetitions + SumOfAmounts(t - 1)

\* C14: the counter printed after the five threads have been joined is the
\* sum of all increments (15 times the repetitions), at most one thread is
\* inside the locked section at a time, and no thread ends with an error.
C14_CounterIsSum ==
    program = "shared_counter" =>
        /\ sc.pc = "done" => sc.printed = SumOfAmounts(NumThreads)
        /\ Cardinality({t \in 1..NumThreads :
                            sc.threads[t].pc = "locked"}) <= 1
        /\ \A t \in 1..NumThreads : sc.threads[t].pc # "error"

(***************************************************************************)
(* The specification.                                                      *)
(***************************************************************************)

\* The start of the example p.
InitOf(p) ==
    /\ program = p
    /\ IF p = "retry" THEN RetryInit ELSE rt = Off
    /\ IF p = "bank" THEN BankInit ELSE bk = Off
    /\ IF p = "memoize" THEN MemoInit ELSE mz = Off
    /\ IF p = "is_prime" THEN PrimeInit ELSE pr = Off
    /\ IF p = "safe_operation" THEN SafeInit ELSE so = Off
    /\ IF p = "module" THEN ModuleInit ELSE mo = Off
    /\ IF p = "parallel_map" THEN PmInit ELSE pm = Off
    /\ IF p = "merge_dictionaries" THEN MdInit ELSE md = Off
    /\ IF p = "factorial" THEN FactorialInit ELSE fa = Off
    /\ IF p = "decorators" THEN DecoInit ELSE dc = Off
    /\ IF p = "shared_counter" THEN CounterInit ELSE sc = Off
    /\ IF p = "demonstrations" THEN DemoInit ELSE dm = Off

Init == \E p \in Programs : InitOf(p)

Next ==
    \/ RetryWhile
    \/ RetryCallReturns
    \/ RetryCallRaises
    \/ RetryExcept
    \/ RetrySleep
    \/ BankDeposit
    \/ BankWithdraw
    \/ MemoCall
    \/ MemoHit
    \/ MemoMiss
    \/ MemoStore
    \/ FibStart
    \/ FibSecond
    \/ FibReturn
    \/ MemoDone
    \/ PrimeStepMain
    \/ PrimeStepFunctions
    \/ PrimeStepMathUtils
    \/ SafeTry
    \/ SafeExcept
    \/ ModuleExec
    \/ ModuleEnd
    \/ ModuleCall
    \/ PmCreate
    \/ PmStart
    \/ PmFinish
    \/ PmList
    \/ PmExit
    \/ MdCall
    \/ FactorialRaise
    \/ FactorialBase
    \/ FactorialRecurse
    \/ FactorialReturn
    \/ DecoCall
    \/ DebugBefore
    \/ TimerBefore
    \/ DeprecatedBefore
    \/ DecoFuncReturns
    \/ DecoFuncRaises
    \/ DebugAfter
    \/ TimerAfter
    \/ DeprecatedAfter
    \/ CounterStart
    \/ CounterLoop
    \/ CounterIncrement
    \/ CounterJoin
    \/ CounterPrint
    \/ CounterAgain
    \/ DemoDefine
    \/ DemoUse
    \/ DemoReturn
    \/ DemoAgain

Spec == Init /\ [][Next]_vars

\* The three copies of is_prime alone, as sequential code that keeps running:
\* a copy that has not returned takes its next step.
PrimeNext ==
    \/ PrimeStepMain
    \/ PrimeStepFunctions
    \/ PrimeStepMathUtils

PrimeSpec == InitOf("is_prime") /\ [][PrimeNext]_vars /\ WF_vars(PrimeNext)

====
